---- MODULE Spec2Model ----
(***************************************************************************)
(* The MafiaGame contract (src/deploy/deploy.ts, lines 631-850): a         *)
(* registry of 4-seat games with a lobby -> started lifecycle, a           *)
(* Fisher-Yates role assignment at start and a role-gated attack.          *)
(* Every external function is one atomic action (one mined transaction);   *)
(* a reverting call leaves the contract storage untouched.                 *)
(***************************************************************************)
EXTENDS Integers, FiniteSets, Sequences, TLC

\* ------------------------------------------------------------------ bounds
NumAddr == 5          \* externally owned accounts 1..NumAddr
SoloGames == 1        \* games that can be created under Spec
SoloCreators == 1     \* accounts that create games under Spec
MaxGames == 2         \* games that can be created under SpecMulti
NumSeeds == 4         \* seed values 0..NumSeeds-1 (all residues mod 4, 3, 2)
MultiAddr == 4        \* accounts that transact under SpecMulti
MultiCreators == 1    \* accounts that create games under SpecMulti
QueryAddr == 5        \* accounts that transact under SpecQuery
QueryCallers == 2     \* accounts that send queries under SpecQuery
UiAddr == 4           \* accounts that transact under SpecUi
UiCreators == 2       \* accounts that create games under SpecUi

\* ------------------------------------------------------- program constants
MaxPlayers == 4
Villager == 1
Werewolf == 2
Seer == 3

ZeroAddress == 0
Addresses == 1 .. NumAddr
AnyAddress == 0 .. NumAddr
ThisContract == NumAddr + 1
Seats == 0 .. (MaxPlayers - 1)
GameIds == 0 .. MaxGames
Seeds == 0 .. (NumSeeds - 1)

VARIABLES nextGameId, games, playerIndex, acl, engine, last, ui

vars == <<nextGameId, games, playerIndex, acl, engine, last, ui>>
storage == <<nextGameId, games, playerIndex, acl, engine>>

\* A storage slot of mapping _games that was never written.
EmptyGame ==
    [creator |-> ZeroAddress,
     players |-> [i \in Seats |-> ZeroAddress],
     encryptedRoles |-> [i \in Seats |-> 0],
     roles |-> [i \in Seats |-> 0],
     alive |-> [i \in Seats |-> FALSE],
     playerCount |-> 0,
     started |-> FALSE]

\* The confidential value engine the contract was deployed against is a black
\* box: it either derives a handle from the plaintext alone ("byValue") or
\* mints a new one for every call ("fresh").  It never changes afterwards.
EngineModes == {"byValue", "fresh"}

NoEvent == <<>>
Outcome(op, gameId, caller, err, event) ==
    [op |-> op, gameId |-> gameId, caller |-> caller, err |-> err, event |-> event]

\* The state of the web client MafiaGameApp of one connected account (useState
\* hooks of src/tasks/MafiaGame.ts:161-168).  gameDetails is the last loaded
\* result of getGameDetails, decryptedRole the numeric role behind the label
\* (0 for null).  shownGameId and roleGameId record which game the details and
\* the role were read for; createdId is the identifier the createGame
\* transaction of handleCreateGame allocated, reportedId the one it reported.
UiUser == 1
NoId == -1
NoDetails == <<>>
UiInit ==
    [selectedGameId |-> NoId,
     gameDetails |-> NoDetails,
     shownGameId |-> NoId,
     decryptedRole |-> 0,
     roleGameId |-> NoId,
     isBusy |-> FALSE,
     pending |-> "none",
     createdId |-> NoId,
     reportedId |-> NoId]

Init ==
    /\ ui = UiInit
    /\ nextGameId = 0
    /\ games = [g \in GameIds |-> EmptyGame]
    /\ playerIndex = [g \in GameIds |-> [a \in AnyAddress |-> 0]]
    /\ acl = {}
    /\ engine \in EngineModes
    /\ last = Outcome("deploy", 0, ZeroAddress, "none", NoEvent)

\* ------------------------------------------------------------- _addPlayer
\* players[newIndex] is a checked array access: an index of 4 panics.
addPlayerPanics(gs, gameId) == gs[gameId].playerCount >= MaxPlayers

\* Mutant: the reverse lookup stores the seat, not seat + 1.
addPlayerIndexOffByOne(gs, pidx, gameId, player) ==
    LET game == gs[gameId]
        newIndex == game.playerCount
    IN  [games |-> [gs EXCEPT ![gameId] =
                        [game EXCEPT !.players[newIndex] = player,
                                     !.playerCount = newIndex + 1,
                                     !.alive[newIndex] = TRUE]],
         index |-> [pidx EXCEPT ![gameId][player] = newIndex]]

\* Mutant: playerCount is not incremented.
addPlayerNoCount(gs, pidx, gameId, player) ==
    LET game == gs[gameId]
        newIndex == game.playerCount
    IN  [games |-> [gs EXCEPT ![gameId] =
                        [game EXCEPT !.players[newIndex] = player,
                                     !.alive[newIndex] = TRUE]],
         index |-> [pidx EXCEPT ![gameId][player] = newIndex + 1]]

\* Mutant: the reverse lookup is keyed by the player alone, for all games.
addPlayerSharedIndex(gs, pidx, gameId, player) ==
    LET game == gs[gameId]
        newIndex == game.playerCount
    IN  [games |-> [gs EXCEPT ![gameId] =
                        [game EXCEPT !.players[newIndex] = player,
                                     !.playerCount = newIndex + 1,
                                     !.alive[newIndex] = TRUE]],
         index |-> [h \in DOMAIN pidx |-> [pidx[h] EXCEPT ![player] = newIndex + 1]]]

addPlayer(gs, pidx, gameId, player) ==
    LET game == gs[gameId]
        newIndex == game.playerCount
    IN  [games |-> [gs EXCEPT ![gameId] =
                        [game EXCEPT !.players[newIndex] = player,
                                     !.playerCount = newIndex + 1,
                                     !.alive[newIndex] = TRUE]],
         index |-> [pidx EXCEPT ![gameId][player] = newIndex + 1]]

\* ------------------------------------------------------------- createGame
\* Mutant: the counter advances by two, leaving an identifier unused.
CreateGameSkipsId(caller) ==
    LET gameId == nextGameId
        withCreator == [games EXCEPT ![gameId].creator = caller]
        seated == addPlayer(withCreator, playerIndex, gameId, caller)
    IN  /\ nextGameId' = nextGameId + 2
        /\ games' = seated.games
        /\ playerIndex' = seated.index
        /\ UNCHANGED <<acl, engine>>
        /\ last' = Outcome("createGame", gameId, caller, "none", <<"GameCreated", gameId, caller>>)

\* Mutant: the creator is recorded but not seated.
CreateGameForgetsSeat(caller) ==
    LET gameId == nextGameId
    IN  /\ nextGameId' = nextGameId + 1
        /\ games' = [games EXCEPT ![gameId].creator = caller]
        /\ UNCHANGED <<playerIndex, acl, engine>>
        /\ last' = Outcome("createGame", gameId, caller, "none", <<"GameCreated", gameId, caller>>)

CreateGame(caller) ==
    LET gameId == nextGameId
        withCreator == [games EXCEPT ![gameId].creator = caller]
        seated == addPlayer(withCreator, playerIndex, gameId, caller)
    IN  /\ nextGameId' = nextGameId + 1
        /\ games' = seated.games
        /\ playerIndex' = seated.index
        /\ UNCHANGED <<acl, engine>>
        /\ last' = Outcome("createGame", gameId, caller, "none", <<"GameCreated", gameId, caller>>)

\* --------------------------------------------------------------- joinGame
\* Mutant: the capacity check is missing.
joinGameRevertNoFullCheck(gameId, caller) ==
    LET game == games[gameId]
    IN  IF game.creator = ZeroAddress THEN "GameNotFound"
        ELSE IF game.started THEN "GameAlreadyStarted"
        ELSE IF playerIndex[gameId][caller] # 0 THEN "PlayerAlreadyJoined"
        ELSE "none"

\* Mutant: the duplicate check is made before the capacity check.
joinGameRevertDupFirst(gameId, caller) ==
    LET game == games[gameId]
    IN  IF game.creator = ZeroAddress THEN "GameNotFound"
        ELSE IF game.started THEN "GameAlreadyStarted"
        ELSE IF playerIndex[gameId][caller] # 0 THEN "PlayerAlreadyJoined"
        ELSE IF game.playerCount >= MaxPlayers THEN "GameFull"
        ELSE "none"

\* Mutant: the duplicate check is missing.
joinGameRevertNoDupCheck(gameId, caller) ==
    LET game == games[gameId]
    IN  IF game.creator = ZeroAddress THEN "GameNotFound"
        ELSE IF game.started THEN "GameAlreadyStarted"
        ELSE IF game.playerCount >= MaxPlayers THEN "GameFull"
        ELSE "none"

\* Mutant: the capacity check lets a fifth player through.
joinGameRevertFullOffByOne(gameId, caller) ==
    LET game == games[gameId]
    IN  IF game.creator = ZeroAddress THEN "GameNotFound"
        ELSE IF game.started THEN "GameAlreadyStarted"
        ELSE IF game.playerCount > MaxPlayers THEN "GameFull"
        ELSE IF playerIndex[gameId][caller] # 0 THEN "PlayerAlreadyJoined"
        ELSE "none"

joinGameRevert(gameId, caller) ==
    LET game == games[gameId]
    IN  IF game.creator = ZeroAddress THEN "GameNotFound"
        ELSE IF game.started THEN "GameAlreadyStarted"
        ELSE IF game.playerCount >= MaxPlayers THEN "GameFull"
        ELSE IF playerIndex[gameId][caller] # 0 THEN "PlayerAlreadyJoined"
        ELSE "none"

joinGameResult(gameId, caller) ==
    IF joinGameRevert(gameId, caller) # "none" THEN joinGameRevert(gameId, caller)
    ELSE IF addPlayerPanics(games, gameId) THEN "Panic"
    ELSE "none"

JoinGame(gameId, caller) ==
    LET err == joinGameResult(gameId, caller)
        seated == addPlayer(games, playerIndex, gameId, caller)
    IN  IF err = "none"
        THEN /\ games' = seated.games
             /\ playerIndex' = seated.index
             /\ UNCHANGED <<nextGameId, acl, engine>>
             /\ last' = Outcome("joinGame", gameId, caller, "none", <<"PlayerJoined", gameId, caller>>)
        ELSE /\ UNCHANGED storage
             /\ last' = Outcome("joinGame", gameId, caller, err, NoEvent)

\* -------------------------------------------------------------- startGame
\* Mutant: the playerCount check is missing.
startGameRevertNoReadyCheck(gameId, caller) ==
    LET game == games[gameId]
    IN  IF game.creator = ZeroAddress THEN "GameNotFound"
        ELSE IF game.started THEN "GameAlreadyStarted"
        ELSE IF playerIndex[gameId][caller] = 0 THEN "PlayerNotInGame"
        ELSE "none"

\* Mutant: the started check is missing.
startGameRevertNoStartedCheck(gameId, caller) ==
    LET game == games[gameId]
    IN  IF game.creator = ZeroAddress THEN "GameNotFound"
        ELSE IF playerIndex[gameId][caller] = 0 THEN "PlayerNotInGame"
        ELSE IF game.playerCount # MaxPlayers THEN "GameNotReady"
        ELSE "none"

\* Mutant: the playerCount check is made before the membership check.
startGameRevertReadyFirst(gameId, caller) ==
    LET game == games[gameId]
    IN  IF game.creator = ZeroAddress THEN "GameNotFound"
        ELSE IF game.started THEN "GameAlreadyStarted"
        ELSE IF game.playerCount # MaxPlayers THEN "GameNotReady"
        ELSE IF playerIndex[gameId][caller] = 0 THEN "PlayerNotInGame"
        ELSE "none"

\* Mutant: only the creator may start the game.
startGameRevertCreatorOnly(gameId, caller) ==
    LET game == games[gameId]
    IN  IF game.creator = ZeroAddress THEN "GameNotFound"
        ELSE IF game.started THEN "GameAlreadyStarted"
        ELSE IF game.creator # caller THEN "PlayerNotInGame"
        ELSE IF game.playerCount # MaxPlayers THEN "GameNotReady"
        ELSE "none"

startGameRevert(gameId, caller) ==
    LET game == games[gameId]
    IN  IF game.creator = ZeroAddress THEN "GameNotFound"
        ELSE IF game.started THEN "GameAlreadyStarted"
        ELSE IF playerIndex[gameId][caller] = 0 THEN "PlayerNotInGame"
        ELSE IF game.playerCount # MaxPlayers THEN "GameNotReady"
        ELSE "none"

\* uint8[4] memory roles = [1, 1, 2, 3]
InitialRoles ==
    [i \in Seats |-> IF i < 2 THEN Villager ELSE IF i = 2 THEN Werewolf ELSE Seer]

\* Mutant: the modulus is i, so an element is never left in place.
swapIndexOfModI(randomSeed, i) == randomSeed % i

swapIndexOf(randomSeed, i) == randomSeed % (i + 1)

\* Mutant: the swap loses temp, roles[swapIndex] keeps its old value.
swapStepLosesTemp(roles, i, randomSeed) ==
    LET swapIndex == swapIndexOf(randomSeed, i)
    IN  [roles EXCEPT ![i] = roles[swapIndex]]

\* One iteration of the shuffle loop: swap roles[i] and roles[swapIndex].
swapStep(roles, i, randomSeed) ==
    LET swapIndex == swapIndexOf(randomSeed, i)
    IN  [roles EXCEPT ![i] = roles[swapIndex], ![swapIndex] = roles[i]]

\* for (i = 3; i > 0; i--): seedAt[i] is the value of randomSeed in iteration i
\* (the keccak256 digests are unconstrained: any value may come out).
RECURSIVE shuffleLoop(_, _, _)
shuffleLoop(roles, i, seedAt) ==
    IF i > 0 THEN shuffleLoop(swapStep(roles, i, seedAt[i]), i - 1, seedAt)
    ELSE roles

shuffleRoles(seedAt) == shuffleLoop(InitialRoles, MaxPlayers - 1, seedAt)

\* FHE.asEuint8: the handle the confidential value engine returns.
asEuint8(mode, gameId, i, value) ==
    IF mode = "byValue" THEN value ELSE MaxPlayers * (gameId + 1) + i

\* Mutant: the loop stops one seat early.
assignRolesSkipsLastSeat(game, gameId, roles, mode) ==
    [game EXCEPT !.roles = [i \in Seats |-> IF i < MaxPlayers - 1 THEN roles[i] ELSE @[i]],
                 !.encryptedRoles = [i \in Seats |->
                     IF i < MaxPlayers - 1 THEN asEuint8(mode, gameId, i, roles[i]) ELSE @[i]],
                 !.alive = [i \in Seats |-> TRUE]]

\* The second loop of startGame: roles, handles, grants and alive flags.
assignRoles(game, gameId, roles, mode) ==
    [game EXCEPT !.roles = [i \in Seats |-> roles[i]],
                 !.encryptedRoles = [i \in Seats |-> asEuint8(mode, gameId, i, roles[i])],
                 !.alive = [i \in Seats |-> TRUE]]

\* The statements of the assignment loop and the one after it, in program
\* order: storage writes of the contract and calls into the FHE library.
Step(kind, what, seat) == [kind |-> kind, what |-> what, seat |-> seat]

RECURSIVE assignLoopSteps(_)
assignLoopSteps(i) ==
    IF i < MaxPlayers
    THEN <<Step("write", "roles", i),
           Step("call", "asEuint8", i),
           Step("write", "encryptedRoles", i),
           Step("call", "allowThis", i),
           Step("call", "allow", i),
           Step("write", "alive", i)>> \o assignLoopSteps(i + 1)
    ELSE <<>>

startGameSteps == assignLoopSteps(0) \o <<Step("write", "started", 0)>>

grantsOf(game) ==
    UNION {{<<game.encryptedRoles[i], ThisContract>>,
            <<game.encryptedRoles[i], game.players[i]>>} : i \in Seats}

\* seedRuns: the values randomSeed may take in the three loop iterations.
StartGame(gameId, caller, seedRuns) ==
    LET err == startGameRevert(gameId, caller)
    IN  IF err = "none"
        THEN /\ \E seedAt \in seedRuns :
                    LET assigned == assignRoles(games[gameId], gameId,
                                                shuffleRoles(seedAt), engine)
                    IN  /\ games' = [games EXCEPT ![gameId] =
                                        [assigned EXCEPT !.started = TRUE]]
                        /\ acl' = acl \cup grantsOf(assigned)
             /\ UNCHANGED <<nextGameId, playerIndex, engine>>
             /\ last' = Outcome("startGame", gameId, caller, "none", <<"GameStarted", gameId>>)
        ELSE /\ UNCHANGED storage
             /\ last' = Outcome("startGame", gameId, caller, err, NoEvent)

\* ----------------------------------------------------------------- attack
\* Mutant: the role gate is missing.
attackRevertNoRoleCheck(gameId, caller, target) ==
    LET game == games[gameId]
        attackerIndex == playerIndex[gameId][caller]
        attackerPosition == attackerIndex - 1
        targetIndex == playerIndex[gameId][target]
        targetPosition == targetIndex - 1
    IN  IF game.creator = ZeroAddress THEN "GameNotFound"
        ELSE IF ~game.started THEN "GameNotStarted"
        ELSE IF attackerIndex = 0 THEN "PlayerNotInGame"
        ELSE IF ~game.alive[attackerPosition] THEN "PlayerAlreadyDead"
        ELSE IF targetIndex = 0 THEN "PlayerNotInGame"
        ELSE IF ~game.alive[targetPosition] THEN "PlayerAlreadyDead"
        ELSE IF targetPosition = attackerPosition THEN "CannotAttackSelf"
        ELSE "none"

\* Mutant: the role gate is checked before the attacker's alive flag.
attackRevertRoleFirst(gameId, caller, target) ==
    LET game == games[gameId]
        attackerIndex == playerIndex[gameId][caller]
        attackerPosition == attackerIndex - 1
        targetIndex == playerIndex[gameId][target]
        targetPosition == targetIndex - 1
    IN  IF game.creator = ZeroAddress THEN "GameNotFound"
        ELSE IF ~game.started THEN "GameNotStarted"
        ELSE IF attackerIndex = 0 THEN "PlayerNotInGame"
        ELSE IF game.roles[attackerPosition] # Werewolf THEN "NotWerewolf"
        ELSE IF ~game.alive[attackerPosition] THEN "PlayerAlreadyDead"
        ELSE IF targetIndex = 0 THEN "PlayerNotInGame"
        ELSE IF ~game.alive[targetPosition] THEN "PlayerAlreadyDead"
        ELSE IF targetPosition = attackerPosition THEN "CannotAttackSelf"
        ELSE "none"

\* Mutant: the self-attack check is missing.
attackRevertNoSelfCheck(gameId, caller, target) ==
    LET game == games[gameId]
        attackerIndex == playerIndex[gameId][caller]
        attackerPosition == attackerIndex - 1
        targetIndex == playerIndex[gameId][target]
        targetPosition == targetIndex - 1
    IN  IF game.creator = ZeroAddress THEN "GameNotFound"
        ELSE IF ~game.started THEN "GameNotStarted"
        ELSE IF attackerIndex = 0 THEN "PlayerNotInGame"
        ELSE IF ~game.alive[attackerPosition] THEN "PlayerAlreadyDead"
        ELSE IF game.roles[attackerPosition] # Werewolf THEN "NotWerewolf"
        ELSE IF targetIndex = 0 THEN "PlayerNotInGame"
        ELSE IF ~game.alive[targetPosition] THEN "PlayerAlreadyDead"
        ELSE "none"

\* Mutant: the target is looked up before the role gate.
attackRevertTargetFirst(gameId, caller, target) ==
    LET game == games[gameId]
        attackerIndex == playerIndex[gameId][caller]
        attackerPosition == attackerIndex - 1
        targetIndex == playerIndex[gameId][target]
        targetPosition == targetIndex - 1
    IN  IF game.creator = ZeroAddress THEN "GameNotFound"
        ELSE IF ~game.started THEN "GameNotStarted"
        ELSE IF attackerIndex = 0 THEN "PlayerNotInGame"
        ELSE IF ~game.alive[attackerPosition] THEN "PlayerAlreadyDead"
        ELSE IF targetIndex = 0 THEN "PlayerNotInGame"
        ELSE IF game.roles[attackerPosition] # Werewolf THEN "NotWerewolf"
        ELSE IF ~game.alive[targetPosition] THEN "PlayerAlreadyDead"
        ELSE IF targetPosition = attackerPosition THEN "CannotAttackSelf"
        ELSE "none"

\* Mutant: the negation of the target's alive flag is lost.
attackRevertTargetAliveInverted(gameId, caller, target) ==
    LET game == games[gameId]
        attackerIndex == playerIndex[gameId][caller]
        attackerPosition == attackerIndex - 1
        targetIndex == playerIndex[gameId][target]
        targetPosition == targetIndex - 1
    IN  IF game.creator = ZeroAddress THEN "GameNotFound"
        ELSE IF ~game.started THEN "GameNotStarted"
        ELSE IF attackerIndex = 0 THEN "PlayerNotInGame"
        ELSE IF ~game.alive[attackerPosition] THEN "PlayerAlreadyDead"
        ELSE IF game.roles[attackerPosition] # Werewolf THEN "NotWerewolf"
        ELSE IF targetIndex = 0 THEN "PlayerNotInGame"
        ELSE IF game.alive[targetPosition] THEN "PlayerAlreadyDead"
        ELSE IF targetPosition = attackerPosition THEN "CannotAttackSelf"
        ELSE "none"

\* Mutant: the self-attack test is inverted.
attackRevertSelfCheckInverted(gameId, caller, target) ==
    LET game == games[gameId]
        attackerIndex == playerIndex[gameId][caller]
        attackerPosition == attackerIndex - 1
        targetIndex == playerIndex[gameId][target]
        targetPosition == targetIndex - 1
    IN  IF game.creator = ZeroAddress THEN "GameNotFound"
        ELSE IF ~game.started THEN "GameNotStarted"
        ELSE IF attackerIndex = 0 THEN "PlayerNotInGame"
        ELSE IF ~game.alive[attackerPosition] THEN "PlayerAlreadyDead"
        ELSE IF game.roles[attackerPosition] # Werewolf THEN "NotWerewolf"
        ELSE IF targetIndex = 0 THEN "PlayerNotInGame"
        ELSE IF ~game.alive[targetPosition] THEN "PlayerAlreadyDead"
        ELSE IF targetPosition # attackerPosition THEN "CannotAttackSelf"
        ELSE "none"

attackRevert(gameId, caller, target) ==
    LET game == games[gameId]
        attackerIndex == playerIndex[gameId][caller]
        attackerPosition == attackerIndex - 1
        targetIndex == playerIndex[gameId][target]
        targetPosition == targetIndex - 1
    IN  IF game.creator = ZeroAddress THEN "GameNotFound"
        ELSE IF ~game.started THEN "GameNotStarted"
        ELSE IF attackerIndex = 0 THEN "PlayerNotInGame"
        ELSE IF ~game.alive[attackerPosition] THEN "PlayerAlreadyDead"
        ELSE IF game.roles[attackerPosition] # Werewolf THEN "NotWerewolf"
        ELSE IF targetIndex = 0 THEN "PlayerNotInGame"
        ELSE IF ~game.alive[targetPosition] THEN "PlayerAlreadyDead"
        ELSE IF targetPosition = attackerPosition THEN "CannotAttackSelf"
        ELSE "none"

\* Mutant: the attacker's seat is cleared instead of the target's.
AttackClearsAttacker(gameId, caller, target) ==
    LET err == attackRevert(gameId, caller, target)
        attackerPosition == playerIndex[gameId][caller] - 1
    IN  IF err = "none"
        THEN /\ games' = [games EXCEPT ![gameId].alive[attackerPosition] = FALSE]
             /\ UNCHANGED <<nextGameId, playerIndex, acl, engine>>
             /\ last' = Outcome("attack", gameId, caller, "none", <<"PlayerAttacked", gameId, caller, target>>)
        ELSE /\ UNCHANGED storage
             /\ last' = Outcome("attack", gameId, caller, err, NoEvent)

\* Mutant: the alive flag is written before the self-attack check, and the
\* write survives the failure.
AttackWritesBeforeSelfCheck(gameId, caller, target) ==
    LET err == attackRevert(gameId, caller, target)
        targetPosition == playerIndex[gameId][target] - 1
    IN  IF err = "none"
        THEN /\ games' = [games EXCEPT ![gameId].alive[targetPosition] = FALSE]
             /\ UNCHANGED <<nextGameId, playerIndex, acl, engine>>
             /\ last' = Outcome("attack", gameId, caller, "none", <<"PlayerAttacked", gameId, caller, target>>)
        ELSE IF err = "CannotAttackSelf"
        THEN /\ games' = [games EXCEPT ![gameId].alive[targetPosition] = FALSE]
             /\ UNCHANGED <<nextGameId, playerIndex, acl, engine>>
             /\ last' = Outcome("attack", gameId, caller, err, NoEvent)
        ELSE /\ UNCHANGED storage
             /\ last' = Outcome("attack", gameId, caller, err, NoEvent)

\* Mutant: a successful attack emits no event.
AttackSilent(gameId, caller, target) ==
    LET err == attackRevert(gameId, caller, target)
        targetPosition == playerIndex[gameId][target] - 1
    IN  IF err = "none"
        THEN /\ games' = [games EXCEPT ![gameId].alive[targetPosition] = FALSE]
             /\ UNCHANGED <<nextGameId, playerIndex, acl, engine>>
             /\ last' = Outcome("attack", gameId, caller, "none", NoEvent)
        ELSE /\ UNCHANGED storage
             /\ last' = Outcome("attack", gameId, caller, err, NoEvent)

\* Mutant: a successful attack brings the earlier victims back.
AttackRevivesOthers(gameId, caller, target) ==
    LET err == attackRevert(gameId, caller, target)
        targetPosition == playerIndex[gameId][target] - 1
    IN  IF err = "none"
        THEN /\ games' = [games EXCEPT ![gameId].alive =
                              [i \in Seats |-> i # targetPosition]]
             /\ UNCHANGED <<nextGameId, playerIndex, acl, engine>>
             /\ last' = Outcome("attack", gameId, caller, "none", <<"PlayerAttacked", gameId, caller, target>>)
        ELSE /\ UNCHANGED storage
             /\ last' = Outcome("attack", gameId, caller, err, NoEvent)

\* Mutant: a successful attack vacates the target's seat.
AttackRemovesTarget(gameId, caller, target) ==
    LET err == attackRevert(gameId, caller, target)
        targetPosition == playerIndex[gameId][target] - 1
    IN  IF err = "none"
        THEN /\ games' = [games EXCEPT ![gameId].alive[targetPosition] = FALSE,
                                       ![gameId].players[targetPosition] = ZeroAddress]
             /\ playerIndex' = [playerIndex EXCEPT ![gameId][target] = 0]
             /\ UNCHANGED <<nextGameId, acl, engine>>
             /\ last' = Outcome("attack", gameId, caller, "none", <<"PlayerAttacked", gameId, caller, target>>)
        ELSE /\ UNCHANGED storage
             /\ last' = Outcome("attack", gameId, caller, err, NoEvent)

Attack(gameId, caller, target) ==
    LET err == attackRevert(gameId, caller, target)
        targetPosition == playerIndex[gameId][target] - 1
    IN  IF err = "none"
        THEN /\ games' = [games EXCEPT ![gameId].alive[targetPosition] = FALSE]
             /\ UNCHANGED <<nextGameId, playerIndex, acl, engine>>
             /\ last' = Outcome("attack", gameId, caller, "none", <<"PlayerAttacked", gameId, caller, target>>)
        ELSE /\ UNCHANGED storage
             /\ last' = Outcome("attack", gameId, caller, err, NoEvent)

\* attack executed on the storage (gs, pidx) instead of the current one: the
\* error it reverts with, and the games it leaves behind.
\* Mutant: the role gate is checked before the attacker's alive flag.
attackRevertInRoleFirst(gs, pidx, gameId, caller, target) ==
    LET game == gs[gameId]
        attackerIndex == pidx[gameId][caller]
        attackerPosition == attackerIndex - 1
        targetIndex == pidx[gameId][target]
        targetPosition == targetIndex - 1
    IN  IF game.creator = ZeroAddress THEN "GameNotFound"
        ELSE IF ~game.started THEN "GameNotStarted"
        ELSE IF attackerIndex = 0 THEN "PlayerNotInGame"
        ELSE IF game.roles[attackerPosition] # Werewolf THEN "NotWerewolf"
        ELSE IF ~game.alive[attackerPosition] THEN "PlayerAlreadyDead"
        ELSE IF targetIndex = 0 THEN "PlayerNotInGame"
        ELSE IF ~game.alive[targetPosition] THEN "PlayerAlreadyDead"
        ELSE IF targetPosition = attackerPosition THEN "CannotAttackSelf"
        ELSE "none"

attackRevertIn(gs, pidx, gameId, caller, target) ==
    LET game == gs[gameId]
        attackerIndex == pidx[gameId][caller]
        attackerPosition == attackerIndex - 1
        targetIndex == pidx[gameId][target]
        targetPosition == targetIndex - 1
    IN  IF game.creator = ZeroAddress THEN "GameNotFound"
        ELSE IF ~game.started THEN "GameNotStarted"
        ELSE IF attackerIndex = 0 THEN "PlayerNotInGame"
        ELSE IF ~game.alive[attackerPosition] THEN "PlayerAlreadyDead"
        ELSE IF game.roles[attackerPosition] # Werewolf THEN "NotWerewolf"
        ELSE IF targetIndex = 0 THEN "PlayerNotInGame"
        ELSE IF ~game.alive[targetPosition] THEN "PlayerAlreadyDead"
        ELSE IF targetPosition = attackerPosition THEN "CannotAttackSelf"
        ELSE "none"

attackIn(gs, pidx, gameId, caller, target) ==
    LET err == attackRevertIn(gs, pidx, gameId, caller, target)
        targetPosition == pidx[gameId][target] - 1
    IN  [err |-> err,
         games |-> IF err = "none"
                   THEN [gs EXCEPT ![gameId].alive[targetPosition] = FALSE]
                   ELSE gs]

\* ------------------------------------------------------------------ views
\* The result of a view call: the error it reverts with, or the value returned.
View(err, value) == [err |-> err, value |-> value]

\* Mutant: the membership check is made before the started check.
getPlayerEncryptedRoleIndexFirst(gameId, player) ==
    LET game == games[gameId]
        indexPlusOne == playerIndex[gameId][player]
    IN  IF game.creator = ZeroAddress THEN View("GameNotFound", 0)
        ELSE IF indexPlusOne = 0 THEN View("PlayerNotInGame", 0)
        ELSE IF ~game.started THEN View("GameNotStarted", 0)
        ELSE View("none", game.encryptedRoles[indexPlusOne - 1])

getGameDetails(gameId) ==
    LET game == games[gameId]
    IN  IF game.creator = ZeroAddress THEN View("GameNotFound", <<>>)
        ELSE View("none", <<game.creator, game.players, game.started,
                            game.alive, game.playerCount>>)

getNextGameId == View("none", nextGameId)

getPlayerEncryptedRole(gameId, player) ==
    LET game == games[gameId]
        indexPlusOne == playerIndex[gameId][player]
    IN  IF game.creator = ZeroAddress THEN View("GameNotFound", 0)
        ELSE IF ~game.started THEN View("GameNotStarted", 0)
        ELSE IF indexPlusOne = 0 THEN View("PlayerNotInGame", 0)
        ELSE View("none", game.encryptedRoles[indexPlusOne - 1])

\* for (i = 0; i < 4; i++) if (players[i] != address(0) && alive[i]) aliveCount += 1
RECURSIVE aliveCountFrom(_, _)
aliveCountFrom(game, i) ==
    IF i < MaxPlayers
    THEN (IF game.players[i] # ZeroAddress /\ game.alive[i] THEN 1 ELSE 0)
         + aliveCountFrom(game, i + 1)
    ELSE 0

\* Mutant: occupied seats are counted whether alive or not.
getAlivePlayerCountIgnoresAlive(gameId) ==
    LET game == games[gameId]
    IN  IF game.creator = ZeroAddress THEN View("GameNotFound", 0)
        ELSE View("none", Cardinality({i \in Seats : game.players[i] # ZeroAddress}))

getAlivePlayerCount(gameId) ==
    LET game == games[gameId]
    IN  IF game.creator = ZeroAddress THEN View("GameNotFound", 0)
        ELSE View("none", aliveCountFrom(game, 0))

\* Mutant: the membership check is made before the existence check.
getPlayerStatusIndexFirst(gameId, player) ==
    LET game == games[gameId]
        indexPlusOne == playerIndex[gameId][player]
    IN  IF indexPlusOne = 0 THEN View("PlayerNotInGame", FALSE)
        ELSE IF game.creator = ZeroAddress THEN View("GameNotFound", FALSE)
        ELSE View("none", game.alive[indexPlusOne - 1])

getPlayerStatus(gameId, player) ==
    LET game == games[gameId]
        indexPlusOne == playerIndex[gameId][player]
    IN  IF game.creator = ZeroAddress THEN View("GameNotFound", FALSE)
        ELSE IF indexPlusOne = 0 THEN View("PlayerNotInGame", FALSE)
        ELSE View("none", game.alive[indexPlusOne - 1])

\* ---------------------------------------------------------------- queries
QueryNames == {"getGameDetails", "getPlayerEncryptedRole", "getNextGameId",
               "getAlivePlayerCount", "getPlayerStatus"}

\* Mutant: the player-specific views read msg.sender instead of their argument.
QueryResultBySender(fn, caller, gameId, player) ==
    CASE fn = "getGameDetails" -> getGameDetails(gameId)
      [] fn = "getPlayerEncryptedRole" -> getPlayerEncryptedRole(gameId, caller)
      [] fn = "getNextGameId" -> getNextGameId
      [] fn = "getAlivePlayerCount" -> getAlivePlayerCount(gameId)
      [] fn = "getPlayerStatus" -> getPlayerStatus(gameId, caller)

\* The result of the view fn called by caller (the sender of the eth_call) with
\* the arguments the view takes; no view reads msg.sender.
QueryResult(fn, caller, gameId, player) ==
    CASE fn = "getGameDetails" -> getGameDetails(gameId)
      [] fn = "getPlayerEncryptedRole" -> getPlayerEncryptedRole(gameId, player)
      [] fn = "getNextGameId" -> getNextGameId
      [] fn = "getAlivePlayerCount" -> getAlivePlayerCount(gameId)
      [] fn = "getPlayerStatus" -> getPlayerStatus(gameId, player)

\* A view call: it is executed read-only and emits nothing.
Query(fn, caller, gameId, player) ==
    /\ UNCHANGED storage
    /\ last' = Outcome(fn, gameId, caller, QueryResult(fn, caller, gameId, player).err, NoEvent)

\* ---------------------------------------------------------- specifications
SeedRuns == [1 .. (MaxPlayers - 1) -> Seeds]

\* One game, every account, every seed.  An identifier is absent until its
\* game is created.
SoloIds == 0 .. (SoloGames - 1)

Next ==
    \/ \E c \in 1 .. SoloCreators : nextGameId < SoloGames /\ CreateGame(c) /\ UNCHANGED ui
    \/ \E g \in SoloIds, c \in Addresses : JoinGame(g, c) /\ UNCHANGED ui
    \/ \E g \in SoloIds, c \in Addresses : StartGame(g, c, SeedRuns) /\ UNCHANGED ui
    \/ \E g \in SoloIds, c \in Addresses, t \in AnyAddress : Attack(g, c, t) /\ UNCHANGED ui

Spec == Init /\ [][Next]_vars

\* Several games side by side, fewer accounts, one seed.
MultiSeedRuns == {[i \in 1 .. (MaxPlayers - 1) |-> 0]}

\* Identifiers used in calls: an identifier is absent until its game is created.
MultiIds == 0 .. (MaxGames - 1)

NextMulti ==
    \/ \E c \in 1 .. MultiCreators : nextGameId < MaxGames /\ CreateGame(c) /\ UNCHANGED ui
    \/ \E g \in MultiIds, c \in 1 .. MultiAddr : JoinGame(g, c) /\ UNCHANGED ui
    \/ \E g \in MultiIds, c \in 1 .. MultiAddr : StartGame(g, c, MultiSeedRuns) /\ UNCHANGED ui
    \/ \E g \in MultiIds, c \in 1 .. MultiAddr, t \in 0 .. MultiAddr : Attack(g, c, t) /\ UNCHANGED ui

SpecMulti == Init /\ [][NextMulti]_vars

\* Any account creates games; the calls that follow are made on the first game.
NextCreate ==
    \/ \E c \in 1 .. MultiAddr : nextGameId < MaxGames /\ CreateGame(c) /\ UNCHANGED ui
    \/ \E g \in SoloIds, c \in 1 .. MultiAddr : JoinGame(g, c) /\ UNCHANGED ui
    \/ \E g \in SoloIds, c \in 1 .. MultiAddr : StartGame(g, c, MultiSeedRuns) /\ UNCHANGED ui
    \/ \E g \in SoloIds, c \in 1 .. MultiAddr, t \in 0 .. MultiAddr : Attack(g, c, t) /\ UNCHANGED ui

SpecCreate == Init /\ [][NextCreate]_vars

\* One game, one seed run, with queries sent between the transactions.
NextQuery ==
    \/ \E c \in 1 .. SoloCreators : nextGameId < SoloGames /\ CreateGame(c) /\ UNCHANGED ui
    \/ \E g \in SoloIds, c \in 1 .. QueryAddr : JoinGame(g, c) /\ UNCHANGED ui
    \/ \E g \in SoloIds, c \in 1 .. QueryAddr : StartGame(g, c, MultiSeedRuns) /\ UNCHANGED ui
    \/ \E g \in SoloIds, c \in 1 .. QueryAddr, t \in 0 .. QueryAddr : Attack(g, c, t) /\ UNCHANGED ui
    \/ \E fn \in QueryNames, c \in 1 .. QueryCallers, g \in SoloIds, p \in 0 .. QueryAddr :
          Query(fn, c, g, p) /\ UNCHANGED ui

SpecQuery == Init /\ [][NextQuery]_vars

\* ------------------------------------------------------------- web client
\* parseGameId: the empty field gives null, a number its value.
parseGameId(value) == value

\* loadGame: gameDetails read from the storage gs, null when the call reverts.
loadedDetails(gs, gameId) ==
    IF gs[gameId].creator = ZeroAddress THEN NoDetails
    ELSE <<gs[gameId].creator, gs[gameId].players, gs[gameId].started,
           gs[gameId].alive, gs[gameId].playerCount>>

\* refreshAfterAction: loadGame, then both role fields are cleared.
refreshAfterAction(u, gs, gameId) ==
    [u EXCEPT !.gameDetails = loadedDetails(gs, gameId),
              !.shownGameId = IF loadedDetails(gs, gameId) = NoDetails THEN NoId ELSE gameId,
              !.decryptedRole = 0,
              !.roleGameId = NoId]

isWerewolf == ui.decryptedRole = Werewolf

\* The rows of the loaded game that carry an Attack button.
attackButtons ==
    IF isWerewolf /\ ui.gameDetails # NoDetails
    THEN {i \in Seats : /\ ui.gameDetails[2][i] # UiUser
                        /\ ui.gameDetails[4][i]}
    ELSE {}

\* The game-id input: it is never disabled.
UiEditGameId(value) ==
    /\ ui' = [ui EXCEPT !.selectedGameId = value]
    /\ UNCHANGED <<storage, last>>

\* handleCreateGame up to tx.wait(): the createGame transaction is mined.
UiCreateMined ==
    /\ ~ui.isBusy
    /\ nextGameId < MaxGames
    /\ CreateGame(UiUser)
    /\ ui' = [ui EXCEPT !.isBusy = TRUE, !.pending = "createMined",
                        !.createdId = nextGameId]

\* handleCreateGame after tx.wait(): getNextGameId is read, the id is reported
\* and selected, and the game is loaded.
UiCreateReport ==
    /\ ui.pending = "createMined"
    /\ LET newGameId == getNextGameId.value - 1
       IN  ui' = [refreshAfterAction(ui, games, newGameId) EXCEPT
                      !.selectedGameId = newGameId,
                      !.reportedId = newGameId,
                      !.isBusy = FALSE,
                      !.pending = "none"]
    /\ UNCHANGED <<storage, last>>

\* The end of handleJoinGame, handleStartGame and handleAttack: a mined
\* transaction is followed by refreshAfterAction, a reverted one by setError.
afterTransaction(gameId) ==
    ui' = IF last'.err = "none" THEN refreshAfterAction(ui, games', gameId) ELSE ui

UiJoinGame(gameId) ==
    /\ ~ui.isBusy
    /\ parseGameId(ui.selectedGameId) = gameId
    /\ JoinGame(gameId, UiUser)
    /\ afterTransaction(gameId)

UiStartGame(gameId) ==
    /\ ~ui.isBusy
    /\ parseGameId(ui.selectedGameId) = gameId
    /\ StartGame(gameId, UiUser, MultiSeedRuns)
    /\ afterTransaction(gameId)

\* handleAttack(player) from the Attack button of row i: the transaction goes
\* to the selected game.
UiAttack(gameId, i) ==
    /\ ~ui.isBusy
    /\ i \in attackButtons
    /\ parseGameId(ui.selectedGameId) = gameId
    /\ Attack(gameId, UiUser, ui.gameDetails[2][i])
    /\ afterTransaction(gameId)

\* handleRefresh: loadGame only.
UiRefresh(gameId) ==
    /\ ~ui.isBusy
    /\ ui.selectedGameId = gameId
    /\ ui' = [ui EXCEPT !.gameDetails = loadedDetails(games, gameId),
                        !.shownGameId = IF loadedDetails(games, gameId) = NoDetails
                                        THEN NoId ELSE gameId]
    /\ UNCHANGED <<storage, last>>

\* handleDecryptRole: the button needs a loaded, started game; the handle is
\* read for the selected game and decrypted for the connected account.
UiDecryptRole(gameId) ==
    /\ ~ui.isBusy
    /\ ui.gameDetails # NoDetails
    /\ ui.gameDetails[3]
    /\ parseGameId(ui.selectedGameId) = gameId
    /\ ui' = IF getPlayerEncryptedRole(gameId, UiUser).err = "none"
             THEN [ui EXCEPT !.decryptedRole = games[gameId].roles[playerIndex[gameId][UiUser] - 1],
                             !.roleGameId = gameId]
             ELSE ui
    /\ UNCHANGED <<storage, last>>

\* The client of account UiUser, with the other accounts creating games and
\* joining the first one through transactions of their own.
NextUi ==
    \/ \E c \in 2 .. UiCreators : nextGameId < MaxGames /\ CreateGame(c) /\ UNCHANGED ui
    \/ \E g \in SoloIds, c \in 2 .. UiAddr : JoinGame(g, c) /\ UNCHANGED ui
    \/ \E v \in MultiIds \cup {NoId} : UiEditGameId(v)
    \/ UiCreateMined
    \/ UiCreateReport
    \/ \E g \in MultiIds : UiJoinGame(g)
    \/ \E g \in MultiIds : UiStartGame(g)
    \/ \E g \in MultiIds, i \in Seats : UiAttack(g, i)
    \/ \E g \in MultiIds : UiRefresh(g)
    \/ \E g \in MultiIds : UiDecryptRole(g)

SpecUi == Init /\ [][NextUi]_vars

\* ------------------------------------------------------------------ claims
Exists(g) == games[g].creator # ZeroAddress
Seated(g, a) == playerIndex[g][a] # 0
SeatOf(g, a) == playerIndex[g][a] - 1
Succeeded(o, op) == o.op = op /\ o.err = "none"
RoleCount(g, r) == Cardinality({i \in Seats : games[g].roles[i] = r})

\* C1: in every started game, in the state right after startGame and in every
\* later state, the stored roles are two Villagers, one Werewolf and one Seer,
\* whatever seeds the shuffle drew.
C1_RolesArePermutation ==
    \A g \in GameIds :
        games[g].started =>
            /\ RoleCount(g, Villager) = 2
            /\ RoleCount(g, Werewolf) = 1
            /\ RoleCount(g, Seer) = 1
            /\ \A i \in Seats : games[g].roles[i] \in {Villager, Werewolf, Seer}

\* A started game whose shuffle moved the Werewolf to seat 0, after an attack.
C1_Witness ==
    \E g \in GameIds :
        /\ games[g].started
        /\ games[g].roles[0] = Werewolf
        /\ Succeeded(last, "attack")

\* The preconditions of a successful attack, read in the state before the call.
AttackAllowed(g, c, t) ==
    /\ Exists(g)
    /\ games[g].started
    /\ Seated(g, c)
    /\ games[g].alive[SeatOf(g, c)]
    /\ games[g].roles[SeatOf(g, c)] = Werewolf
    /\ Seated(g, t)
    /\ games[g].players[SeatOf(g, t)] = t
    /\ games[g].alive[SeatOf(g, t)]
    /\ SeatOf(g, t) # SeatOf(g, c)

\* C2: an attack succeeds only from a state where the game is started, the
\* caller is the seated, alive Werewolf and the target is another seated, alive
\* player; and an alive flag goes from true to false only in such a step, for
\* the target's seat.
C2_AttackGated ==
    [][ /\ Succeeded(last', "attack") =>
              /\ last'.event[1] = "PlayerAttacked"
              /\ last'.event[2] = last'.gameId
              /\ last'.event[3] = last'.caller
              /\ AttackAllowed(last'.gameId, last'.caller, last'.event[4])
              /\ ~games'[last'.gameId].alive[SeatOf(last'.gameId, last'.event[4])]
        /\ \A g \in GameIds, i \in Seats :
              (games[g].alive[i] /\ ~games'[g].alive[i]) =>
                  /\ Succeeded(last', "attack")
                  /\ last'.gameId = g
                  /\ SeatOf(g, last'.event[4]) = i
      ]_vars

\* The Werewolf has just eliminated a player.
C2_Witness ==
    /\ Succeeded(last, "attack")
    /\ \E i \in Seats : games[last.gameId].players[i] # ZeroAddress
                        /\ ~games[last.gameId].alive[i]

\* C3: started goes from false to true only in a successful startGame on that
\* game, called when playerCount = 4, and no step on any game resets it.
C3_StartedMonotone ==
    [][ \A g \in GameIds :
            /\ games[g].started => games'[g].started
            /\ (~games[g].started /\ games'[g].started) =>
                  /\ Succeeded(last', "startGame")
                  /\ last'.gameId = g
                  /\ games[g].playerCount = MaxPlayers
      ]_vars

\* One game is started and a later join on another game has succeeded.
C3_Witness ==
    \E g, h \in GameIds :
        /\ g # h
        /\ games[g].started
        /\ Succeeded(last, "joinGame")
        /\ last.gameId = h

\* C4: once a game is started, startGame on it fails with GameAlreadyStarted
\* for every caller and changes nothing, so it succeeds at most once per game.
C4_StartOnce ==
    [][ \A g \in GameIds :
            games[g].started =>
                /\ \A c \in Addresses : startGameRevert(g, c) = "GameAlreadyStarted"
                /\ (last'.op = "startGame" /\ last'.gameId = g) =>
                      /\ last'.err = "GameAlreadyStarted"
                      /\ UNCHANGED storage
      ]_vars

\* A startGame by an account that is not seated was refused on a started game.
C4_Witness ==
    /\ last.op = "startGame"
    /\ last.err = "GameAlreadyStarted"
    /\ games[last.gameId].started
    /\ ~Seated(last.gameId, last.caller)

\* C5 as stated: on an existing game with fewer than 4 players startGame fails
\* with GameNotReady for every caller, seated or not.
C5_Original ==
    \A g \in GameIds :
        (Exists(g) /\ games[g].playerCount < MaxPlayers) =>
            /\ \A c \in Addresses : startGameRevert(g, c) = "GameNotReady"
            /\ (last.op = "startGame" /\ last.gameId = g) => last.err = "GameNotReady"

\* C5: on an existing game with fewer than 4 players startGame fails with
\* GameNotReady for every seated caller and with PlayerNotInGame for every
\* caller that is not seated.
C5_NotReadyForSeated ==
    \A g \in GameIds :
        (Exists(g) /\ games[g].playerCount < MaxPlayers) =>
            /\ \A c \in Addresses :
                  startGameRevert(g, c) =
                      IF Seated(g, c) THEN "GameNotReady" ELSE "PlayerNotInGame"
            /\ (last.op = "startGame" /\ last.gameId = g) =>
                  last.err = IF Seated(g, last.caller) THEN "GameNotReady"
                             ELSE "PlayerNotInGame"

\* A seated player was refused with GameNotReady on a lobby of three.
C5_Witness ==
    /\ last.op = "startGame"
    /\ last.err = "GameNotReady"
    /\ Seated(last.gameId, last.caller)
    /\ games[last.gameId].playerCount = MaxPlayers - 1

\* The order of startGame's checks as the claim gives it.
StartGameExpected(g, c) ==
    CASE ~Exists(g) -> "GameNotFound"
      [] Exists(g) /\ games[g].started -> "GameAlreadyStarted"
      [] Exists(g) /\ ~games[g].started /\ ~Seated(g, c) -> "PlayerNotInGame"
      [] Exists(g) /\ ~games[g].started /\ Seated(g, c)
            /\ games[g].playerCount # MaxPlayers -> "GameNotReady"
      [] OTHER -> "none"

\* C6: every startGame call ends with the first failing check in the order
\* GameNotFound, GameAlreadyStarted, PlayerNotInGame, GameNotReady and then
\* changes nothing; when none fails it sets started and emits GameStarted(gameId),
\* for any seated caller.
C6_StartGameChecks ==
    [][ last'.op = "startGame" =>
            LET g == last'.gameId
                expected == StartGameExpected(g, last'.caller)
            IN  /\ last'.err = expected
                /\ expected = "none" =>
                      /\ games'[g].started
                      /\ last'.event = <<"GameStarted", g>>
                /\ expected # "none" =>
                      /\ UNCHANGED storage
                      /\ last'.event = NoEvent
      ]_vars

\* A seated player other than the creator has just started the game.
C6_Witness ==
    /\ Succeeded(last, "startGame")
    /\ games[last.gameId].started
    /\ last.caller # games[last.gameId].creator
    /\ Seated(last.gameId, last.caller)

\* C7: no game ever has more than 4 players, and joinGame by an account that is
\* not seated, on an unstarted game with 4 players, fails with GameFull and
\* seats nobody.
C7_AtMostFourPlayers ==
    \A g \in GameIds :
        /\ games[g].playerCount <= MaxPlayers
        /\ (Exists(g) /\ ~games[g].started /\ games[g].playerCount = MaxPlayers) =>
              /\ \A c \in Addresses :
                    ~Seated(g, c) => joinGameResult(g, c) = "GameFull"
              /\ (last.op = "joinGame" /\ last.gameId = g /\ ~Seated(g, last.caller)) =>
                    last.err = "GameFull"

\* The fifth distinct account was refused with GameFull.
C7_Witness ==
    /\ last.op = "joinGame"
    /\ last.err = "GameFull"
    /\ ~Seated(last.gameId, last.caller)
    /\ games[last.gameId].playerCount = MaxPlayers
    /\ ~games[last.gameId].started

\* C8 as stated: joinGame by an account already seated in the game fails with
\* PlayerAlreadyJoined whatever the state of the game.
C8_Original ==
    \A g \in GameIds :
        /\ \A c \in Addresses :
              Seated(g, c) => joinGameResult(g, c) = "PlayerAlreadyJoined"
        /\ (last.op = "joinGame" /\ last.gameId = g /\ last.err # "none"
                /\ Seated(g, last.caller)) =>
              last.err = "PlayerAlreadyJoined"

\* C8: joinGame by an account already seated fails with PlayerAlreadyJoined on
\* an unstarted game with fewer than 4 players, with GameFull on an unstarted
\* game with 4 players and with GameAlreadyStarted on a started game.
JoinBySeatedExpected(g) ==
    IF games[g].started THEN "GameAlreadyStarted"
    ELSE IF games[g].playerCount = MaxPlayers THEN "GameFull"
    ELSE "PlayerAlreadyJoined"

C8_DuplicateJoinRefused ==
    \A g \in GameIds :
        /\ \A c \in Addresses :
              Seated(g, c) => joinGameResult(g, c) = JoinBySeatedExpected(g)
        /\ (last.op = "joinGame" /\ last.gameId = g /\ last.err # "none"
                /\ Seated(g, last.caller)) =>
              last.err = JoinBySeatedExpected(g)

\* A seated player was refused with PlayerAlreadyJoined in a lobby of three.
C8_Witness ==
    /\ last.op = "joinGame"
    /\ last.err = "PlayerAlreadyJoined"
    /\ Seated(last.gameId, last.caller)
    /\ games[last.gameId].playerCount = MaxPlayers - 1

\* The order of joinGame's checks as the claim gives it.
JoinGameExpected(g, c) ==
    CASE ~Exists(g) -> "GameNotFound"
      [] Exists(g) /\ games[g].started -> "GameAlreadyStarted"
      [] Exists(g) /\ ~games[g].started /\ games[g].playerCount >= MaxPlayers -> "GameFull"
      [] Exists(g) /\ ~games[g].started /\ games[g].playerCount < MaxPlayers
            /\ playerIndex[g][c] # 0 -> "PlayerAlreadyJoined"
      [] OTHER -> "none"

\* C9: every joinGame call ends with the first failing check in the order
\* GameNotFound, GameAlreadyStarted, GameFull, PlayerAlreadyJoined; when none
\* fails the caller gets the seat numbered by the old playerCount, playerCount
\* grows by 1, the caller's index is seat + 1, the seat is alive and
\* PlayerJoined(gameId, caller) is emitted.
C9_JoinGameChecks ==
    [][ last'.op = "joinGame" =>
            LET g == last'.gameId
                c == last'.caller
                seat == games[g].playerCount
                expected == JoinGameExpected(g, c)
            IN  /\ last'.err = expected
                /\ expected = "none" =>
                      /\ games'[g].players[seat] = c
                      /\ games'[g].playerCount = seat + 1
                      /\ playerIndex'[g][c] = seat + 1
                      /\ games'[g].alive[seat]
                      /\ last'.event = <<"PlayerJoined", g, c>>
                /\ expected # "none" =>
                      /\ UNCHANGED storage
                      /\ last'.event = NoEvent
      ]_vars

\* The fourth player has just been seated in seat 3.
C9_Witness ==
    /\ Succeeded(last, "joinGame")
    /\ games[last.gameId].playerCount = MaxPlayers
    /\ games[last.gameId].players[MaxPlayers - 1] = last.caller
    /\ playerIndex[last.gameId][last.caller] = MaxPlayers

\* C10: in every game the occupied player slots hold pairwise distinct
\* addresses.
C10_SeatsDistinct ==
    \A g \in GameIds : \A i, j \in Seats :
        (i # j /\ games[g].players[i] # ZeroAddress) =>
            games[g].players[i] # games[g].players[j]

\* A full game beside a lobby of three in which a duplicate join was refused.
C10_Witness ==
    /\ games[0].playerCount = MaxPlayers
    /\ games[1].playerCount = MaxPlayers - 1
    /\ last.op = "joinGame"
    /\ last.gameId = 1
    /\ last.err = "PlayerAlreadyJoined"

\* C11: in every existing game playerCount is the number of occupied slots and
\* the slots are filled left to right: players[i] is occupied exactly for
\* i < playerCount.
C11_SeatsFilledLeftToRight ==
    \A g \in GameIds :
        Exists(g) =>
            /\ games[g].playerCount =
                  Cardinality({i \in Seats : games[g].players[i] # ZeroAddress})
            /\ \A i \in Seats :
                  (games[g].players[i] # ZeroAddress) <=> (i < games[g].playerCount)

\* A lobby of two right after the second player was seated.
C11_Witness ==
    /\ Succeeded(last, "joinGame")
    /\ games[last.gameId].playerCount = 2
    /\ games[last.gameId].players[1] = last.caller
    /\ games[last.gameId].players[2] = ZeroAddress

\* C12: a successful attack clears the target seat's alive flag and changes
\* nothing else in storage; getAlivePlayerCount of the game drops by exactly 1
\* and getPlayerStatus of the target returns false.
C12_AttackFrame ==
    [][ \A g \in GameIds, t \in AnyAddress :
            (Succeeded(last', "attack") /\ last'.gameId = g /\ last'.event[4] = t) =>
                /\ games' = [games EXCEPT ![g].alive[SeatOf(g, t)] = FALSE]
                /\ games[g].alive[SeatOf(g, t)]
                /\ UNCHANGED <<nextGameId, playerIndex, acl, engine>>
                /\ getAlivePlayerCount(g).err = "none"
                /\ getAlivePlayerCount(g)' =
                      View("none", getAlivePlayerCount(g).value - 1)
                /\ getPlayerStatus(g, t)' = View("none", FALSE)
      ]_vars

\* The second attack of a game has just succeeded: two players are left.
C12_Witness ==
    /\ Succeeded(last, "attack")
    /\ getAlivePlayerCount(last.gameId) = View("none", 2)
    /\ getPlayerStatus(last.gameId, last.event[4]) = View("none", FALSE)

RoleOf(g, a) == games[g].roles[SeatOf(g, a)]
AliveAt(g, a) == games[g].alive[SeatOf(g, a)]

\* C13 as stated: in a started game an attack by a seated player whose role is
\* not Werewolf fails with NotWerewolf, for every target, in every state.
C13_Original ==
    \A g \in GameIds :
        games[g].started =>
            /\ \A c \in Addresses, t \in AnyAddress :
                  (Seated(g, c) /\ RoleOf(g, c) # Werewolf) =>
                      attackRevert(g, c, t) = "NotWerewolf"
            /\ (last.op = "attack" /\ last.gameId = g /\ Seated(g, last.caller)
                    /\ RoleOf(g, last.caller) # Werewolf) =>
                  last.err = "NotWerewolf"

\* C13: in a started game an attack by a seated player whose role is not
\* Werewolf fails with NotWerewolf while the caller's seat is alive, and with
\* PlayerAlreadyDead once the caller has been eliminated, for every target.
NonWerewolfExpected(g, c) ==
    IF AliveAt(g, c) THEN "NotWerewolf" ELSE "PlayerAlreadyDead"

C13_NonWerewolfRefused ==
    \A g \in GameIds :
        games[g].started =>
            /\ \A c \in Addresses, t \in AnyAddress :
                  (Seated(g, c) /\ RoleOf(g, c) # Werewolf) =>
                      attackRevert(g, c, t) = NonWerewolfExpected(g, c)
            /\ (last.op = "attack" /\ last.gameId = g /\ Seated(g, last.caller)
                    /\ RoleOf(g, last.caller) # Werewolf) =>
                  last.err = NonWerewolfExpected(g, last.caller)

\* An alive Villager or Seer was refused with NotWerewolf after another player
\* had already been eliminated.
C13_Witness ==
    /\ last.op = "attack"
    /\ last.err = "NotWerewolf"
    /\ AliveAt(last.gameId, last.caller)
    /\ getAlivePlayerCount(last.gameId) = View("none", MaxPlayers - 1)

\* C14: in a started game the Werewolf's attack on its own address fails with
\* CannotAttackSelf, its attack on a seated player whose alive flag is false
\* fails with PlayerAlreadyDead, and so does the repetition of an attack that
\* has just succeeded.
C14_SelfAndDeadTargets ==
    \A g \in GameIds :
        games[g].started =>
            /\ \A c \in Addresses :
                  (Seated(g, c) /\ RoleOf(g, c) = Werewolf) =>
                      /\ attackRevert(g, c, c) = "CannotAttackSelf"
                      /\ \A t \in Addresses :
                            (Seated(g, t) /\ ~AliveAt(g, t)) =>
                                attackRevert(g, c, t) = "PlayerAlreadyDead"
            /\ (Succeeded(last, "attack") /\ last.gameId = g) =>
                  attackRevert(g, last.caller, last.event[4]) = "PlayerAlreadyDead"
            /\ (last.op = "attack" /\ last.gameId = g
                    /\ last.err = "CannotAttackSelf") =>
                  (Seated(g, last.caller) /\ RoleOf(g, last.caller) = Werewolf)

\* The Werewolf repeated an attack on a player it had eliminated and was
\* refused with PlayerAlreadyDead.
C14_Witness ==
    /\ last.op = "attack"
    /\ last.err = "PlayerAlreadyDead"
    /\ Seated(last.gameId, last.caller)
    /\ RoleOf(last.gameId, last.caller) = Werewolf

\* The order of attack's checks as the claim gives it.
AttackExpected(g, c, t) ==
    IF ~Exists(g) THEN "GameNotFound"
    ELSE IF ~games[g].started THEN "GameNotStarted"
    ELSE IF ~Seated(g, c) THEN "PlayerNotInGame"
    ELSE IF ~AliveAt(g, c) THEN "PlayerAlreadyDead"
    ELSE IF RoleOf(g, c) # Werewolf THEN "NotWerewolf"
    ELSE IF ~Seated(g, t) THEN "PlayerNotInGame"
    ELSE IF ~AliveAt(g, t) THEN "PlayerAlreadyDead"
    ELSE IF SeatOf(g, t) = SeatOf(g, c) THEN "CannotAttackSelf"
    ELSE "none"

\* C15: every attack call ends with the first failing check in the order
\* GameNotFound, GameNotStarted, PlayerNotInGame (caller), PlayerAlreadyDead
\* (caller), NotWerewolf, PlayerNotInGame (target), PlayerAlreadyDead (target),
\* CannotAttackSelf, and succeeds exactly when none of them fails.
C15_AttackChecks ==
    [][ last'.op = "attack" =>
            LET g == last'.gameId
                c == last'.caller
            IN  /\ \A t \in AnyAddress : attackRevert(g, c, t) = AttackExpected(g, c, t)
                /\ last'.err = "none" =>
                      /\ AttackExpected(g, c, last'.event[4]) = "none"
                      /\ games' # games
                /\ last'.err # "none" =>
                      /\ \E t \in AnyAddress : AttackExpected(g, c, t) = last'.err
                      /\ UNCHANGED storage
      ]_vars

\* An alive Villager or Seer aimed at an address that is not seated and was
\* refused for its role, not for the target.
C15_Witness ==
    /\ last.op = "attack"
    /\ last.err = "NotWerewolf"
    /\ \E t \in AnyAddress :
          /\ ~Seated(last.gameId, t)
          /\ attackRevert(last.gameId, last.caller, t) = "NotWerewolf"

\* C16: in every state of a started game the Werewolf's attack on any seated,
\* alive player other than itself succeeds, however many attacks succeeded
\* before.
C16_NoAttackLimit ==
    \A g \in GameIds :
        games[g].started =>
            \A c, t \in Addresses :
                (Seated(g, c) /\ RoleOf(g, c) = Werewolf /\ Seated(g, t)
                    /\ AliveAt(g, t) /\ t # c) =>
                    attackRevert(g, c, t) = "none"

\* The Werewolf has eliminated all three other players.
C16_Witness ==
    /\ Succeeded(last, "attack")
    /\ RoleOf(last.gameId, last.caller) = Werewolf
    /\ getAlivePlayerCount(last.gameId) = View("none", 1)

\* The addresses granted access on a handle.
GranteesOf(handle) == {a \in AnyAddress \cup {ThisContract} : <<handle, a>> \in acl}

\* C17: on the handle startGame created for seat i of a game, access is
\* granted to exactly the contract and the player seated at seat i, in every
\* reachable state; no player is granted access to another seat's handle.
C17_GrantsExactlyOwnerAndContract ==
    \A g \in GameIds :
        games[g].started =>
            \A i \in Seats :
                /\ GranteesOf(games[g].encryptedRoles[i]) =
                      {ThisContract, games[g].players[i]}
                /\ \A j \in Seats \ {i} :
                      <<games[g].encryptedRoles[i], games[g].players[j]>> \notin acl

\* The outcome of getPlayerEncryptedRole as the claim gives it.
EncryptedRoleExpected(g, p) ==
    IF ~Exists(g) THEN View("GameNotFound", 0)
    ELSE IF ~games[g].started THEN View("GameNotStarted", 0)
    ELSE IF Seated(g, p) THEN View("none", games[g].encryptedRoles[SeatOf(g, p)])
    ELSE View("PlayerNotInGame", 0)

\* C18: getPlayerEncryptedRole checks GameNotFound, GameNotStarted,
\* PlayerNotInGame in that order: before start it fails with GameNotStarted
\* for every player argument, seated or not; after start it returns the handle
\* stored for a seated player's seat and fails with PlayerNotInGame otherwise.
C18_EncryptedRoleChecks ==
    \A g \in GameIds, p \in AnyAddress :
        /\ getPlayerEncryptedRole(g, p) = EncryptedRoleExpected(g, p)
        /\ (Exists(g) /\ ~games[g].started) =>
              getPlayerEncryptedRole(g, p).err = "GameNotStarted"

\* A lobby with a player who has just joined: the query for that player and
\* the query for an address that is not seated both fail with GameNotStarted.
C18_Witness ==
    /\ Succeeded(last, "joinGame")
    /\ ~games[last.gameId].started
    /\ getPlayerEncryptedRole(last.gameId, last.caller).err = "GameNotStarted"
    /\ \E p \in Addresses :
          /\ ~Seated(last.gameId, p)
          /\ getPlayerEncryptedRole(last.gameId, p).err = "GameNotStarted"

\* C19: after a successful startGame, getPlayerEncryptedRole succeeds for each
\* of the four seated players and the four handles returned are pairwise
\* distinct, the two Villager seats included.
C19_HandlesPairwiseDistinct ==
    \A g \in GameIds :
        games[g].started =>
            /\ \A i \in Seats :
                  getPlayerEncryptedRole(g, games[g].players[i]).err = "none"
            /\ \A i, j \in Seats :
                  i # j =>
                      getPlayerEncryptedRole(g, games[g].players[i]).value
                          # getPlayerEncryptedRole(g, games[g].players[j]).value

StepOf(op) == last'.op = op /\ last' # last

\* C21: identifiers are dense and never reused: a createGame step returns the
\* current counter and advances it by exactly 1, no other step changes the
\* counter, getNextGameId returns the counter, a game exists exactly when its
\* identifier is below the counter, and an existing game keeps its creator.
C21_DenseIdentifiers ==
    [][ /\ StepOf("createGame") =>
              /\ last'.err = "none"
              /\ last'.gameId = getNextGameId.value
              /\ ~Exists(last'.gameId)
              /\ getNextGameId' = View("none", getNextGameId.value + 1)
        /\ (nextGameId' # nextGameId) => StepOf("createGame")
        /\ getNextGameId = View("none", nextGameId)
        /\ \A g \in GameIds :
              /\ Exists(g) <=> g < getNextGameId.value
              /\ (Exists(g) <=> g < getNextGameId.value)'
              /\ Exists(g) => games'[g].creator = games[g].creator
      ]_vars

\* The second createGame returned identifier 1 after players had joined game 0.
C21_Witness ==
    /\ Succeeded(last, "createGame")
    /\ last.gameId = 1
    /\ getNextGameId = View("none", 2)
    /\ games[0].playerCount > 1

\* The record of a game right after createGame by caller c.
CreatedGame(c) ==
    [creator |-> c,
     players |-> [i \in Seats |-> IF i = 0 THEN c ELSE ZeroAddress],
     encryptedRoles |-> [i \in Seats |-> 0],
     roles |-> [i \in Seats |-> 0],
     alive |-> [i \in Seats |-> i = 0],
     playerCount |-> 1,
     started |-> FALSE]

\* C22: every createGame call succeeds; the new game has creator = caller,
\* players[0] = caller and the other slots zero, playerCount = 1, started =
\* false, seat 0 alive, no roles, and the call emits GameCreated(gameId, caller).
C22_CreateGameEffect ==
    [][ StepOf("createGame") =>
            LET g == last'.gameId
                c == last'.caller
            IN  /\ last'.err = "none"
                /\ last'.event = <<"GameCreated", g, c>>
                /\ games'[g] = CreatedGame(c)
                /\ playerIndex'[g] = [a \in AnyAddress |-> IF a = c THEN 1 ELSE 0]
                /\ \A h \in GameIds :
                      h = g => getGameDetails(h)' =
                                  View("none", <<c, CreatedGame(c).players, FALSE,
                                                 CreatedGame(c).alive, 1>>)
      ]_vars

\* A player who joined game 0 and was eliminated there created a second game.
C22_Witness ==
    /\ Succeeded(last, "createGame")
    /\ last.gameId = 1
    /\ games[0].started
    /\ games[0].creator # last.caller
    /\ Seated(0, last.caller)
    /\ ~AliveAt(0, last.caller)
    /\ games[1] = CreatedGame(last.caller)

\* C23: a joinGame, startGame or attack on one game, successful or not, leaves
\* the record and the player-index entries of every other game unchanged, and
\* createGame leaves every game that already exists unchanged.
C23_GamesIndependent ==
    [][ \A g \in GameIds :
            ((/\ last'.op \in {"joinGame", "startGame", "attack"}
              /\ last'.gameId # g)
             \/ (StepOf("createGame") /\ Exists(g))) =>
                /\ games'[g] = games[g]
                /\ playerIndex'[g] = playerIndex[g]
      ]_vars

\* One address is seated in two started games, in different seats with
\* different roles, eliminated in one game and alive in the other.
C23_Witness ==
    /\ Succeeded(last, "attack")
    /\ \E a \in Addresses, g, h \in GameIds :
          /\ g # h
          /\ games[g].started /\ games[h].started
          /\ Seated(g, a) /\ Seated(h, a)
          /\ SeatOf(g, a) # SeatOf(h, a)
          /\ RoleOf(g, a) # RoleOf(h, a)
          /\ ~AliveAt(g, a) /\ AliveAt(h, a)

RolesUnset(g) ==
    \A i \in Seats : games[g].roles[i] = 0 /\ games[g].encryptedRoles[i] = 0
RolesSet(g) ==
    \A i \in Seats : /\ games[g].roles[i] \in {Villager, Werewolf, Seer}
                     /\ games[g].encryptedRoles[i] # 0

\* C24: for every existing game the four roles and the four handles are all
\* unset while started is false and all set when started is true; they change
\* only in the successful startGame of that game and never afterwards.
C24_RolesAssignedOnce ==
    [][ \A g \in GameIds :
            /\ Exists(g) => (IF games[g].started THEN RolesSet(g) ELSE RolesUnset(g))
            /\ (Exists(g) => (IF games[g].started THEN RolesSet(g) ELSE RolesUnset(g)))'
            /\ games[g].started =>
                  /\ games'[g].roles = games[g].roles
                  /\ games'[g].encryptedRoles = games[g].encryptedRoles
            /\ (\/ games'[g].roles # games[g].roles
                \/ games'[g].encryptedRoles # games[g].encryptedRoles) =>
                  /\ Succeeded(last', "startGame")
                  /\ last'.gameId = g
                  /\ ~games[g].started
      ]_vars

\* A started game keeps its roles and handles through a successful attack and a
\* refused second startGame.
C24_Witness ==
    /\ last.op = "startGame"
    /\ last.err = "GameAlreadyStarted"
    /\ RolesSet(last.gameId)
    /\ getAlivePlayerCount(last.gameId).value < MaxPlayers

\* The outcome of getPlayerStatus as the claim gives it.
PlayerStatusExpected(g, p) ==
    IF ~Exists(g) THEN View("GameNotFound", FALSE)
    ELSE IF ~Seated(g, p) THEN View("PlayerNotInGame", FALSE)
    ELSE View("none", games[g].alive[SeatOf(g, p)])

\* C25: right after a successful startGame all four alive flags are true and
\* getAlivePlayerCount is 4; getPlayerStatus fails with GameNotFound, then with
\* PlayerNotInGame, and otherwise returns the seat's alive flag, which is true
\* from the step that seats the player (also before start) until a successful
\* attack names that player as target.
C25_AliveFlags ==
    /\ [](\A g \in GameIds, p \in AnyAddress :
            /\ getPlayerStatus(g, p) = PlayerStatusExpected(g, p)
            /\ (Seated(g, p) /\ ~games[g].started) =>
                  getPlayerStatus(g, p) = View("none", TRUE))
    /\ [][ \A g \in GameIds :
            (games'[g] # games[g] \/ playerIndex'[g] # playerIndex[g]) =>
                /\ (Succeeded(last', "startGame") /\ last'.gameId = g
                        /\ ~games[g].started) =>
                      /\ \A i \in Seats : games'[g].alive[i]
                      /\ getAlivePlayerCount(g)' = View("none", MaxPlayers)
                /\ \A p \in AnyAddress :
                      /\ (~Seated(g, p) /\ Seated(g, p)') =>
                            getPlayerStatus(g, p)' = View("none", TRUE)
                      /\ (getPlayerStatus(g, p) = View("none", TRUE)
                            /\ getPlayerStatus(g, p)' # View("none", TRUE)) =>
                            /\ Succeeded(last', "attack")
                            /\ last'.gameId = g
                            /\ last'.event[4] = p
                            /\ getPlayerStatus(g, p)' = View("none", FALSE)
         ]_vars

\* A game has just been started: four players alive, and the query for an
\* address that is not seated fails with PlayerNotInGame.
C25_Witness ==
    /\ Succeeded(last, "startGame")
    /\ getAlivePlayerCount(last.gameId) = View("none", MaxPlayers)
    /\ \A i \in Seats :
          getPlayerStatus(last.gameId, games[last.gameId].players[i]) = View("none", TRUE)
    /\ \E p \in Addresses :
          getPlayerStatus(last.gameId, p) = View("PlayerNotInGame", FALSE)

\* The seats of a game that are both occupied and alive.
OccupiedAlive(g) ==
    {i \in Seats : games[g].players[i] # ZeroAddress /\ games[g].alive[i]}

AliveCountExpected(g) ==
    IF ~Exists(g) THEN View("GameNotFound", 0)
    ELSE View("none", Cardinality(OccupiedAlive(g)))

\* C26: getAlivePlayerCount fails with GameNotFound for an absent game and
\* otherwise returns the number of occupied, alive seats; for a game that is not
\* started this is playerCount; a successful startGame makes it 4, each
\* successful attack on the game lowers it by exactly 1 and no other step on a
\* started game changes it, so it is 4 minus the number of successful attacks.
C26_AlivePlayerCount ==
    /\ [](\A g \in GameIds :
            /\ getAlivePlayerCount(g) = AliveCountExpected(g)
            /\ (Exists(g) /\ ~games[g].started) =>
                  getAlivePlayerCount(g).value = games[g].playerCount)
    /\ [][ \A g \in GameIds :
            /\ (Succeeded(last', "attack") /\ last'.gameId = g /\ last' # last) =>
                  getAlivePlayerCount(g)' = View("none", getAlivePlayerCount(g).value - 1)
            /\ games'[g] # games[g] =>
                  /\ (~games[g].started /\ games'[g].started) =>
                        getAlivePlayerCount(g)' = View("none", MaxPlayers)
                  /\ (games[g].started
                        /\ getAlivePlayerCount(g)' # getAlivePlayerCount(g)) =>
                        /\ Succeeded(last', "attack")
                        /\ last'.gameId = g
         ]_vars

\* After two successful attacks the count of a started game is 2.
C26_Witness ==
    /\ Succeeded(last, "attack")
    /\ getAlivePlayerCount(last.gameId) = View("none", MaxPlayers - 2)
    /\ games[last.gameId].playerCount = MaxPlayers

\* C27: the result of every query is the same for every caller, given the same
\* arguments and state, and a query step leaves storage unchanged and emits no
\* event.
C27_QueriesCallerIndependent ==
    /\ [](\A fn \in QueryNames, g \in GameIds, p \in AnyAddress :
            \A c1, c2 \in Addresses :
                QueryResult(fn, c1, g, p) = QueryResult(fn, c2, g, p))
    /\ [][ last'.op \in QueryNames =>
              /\ UNCHANGED storage
              /\ last'.event = NoEvent
              /\ \E p \in AnyAddress :
                    QueryResult(last'.op, last'.caller, last'.gameId, p).err = last'.err
         ]_vars

\* In a started game with an eliminated player, the encrypted role of a seated
\* player was returned to a caller who is not that player.
C27_Witness ==
    /\ last.op = "getPlayerEncryptedRole"
    /\ last.err = "none"
    /\ getAlivePlayerCount(last.gameId).value < MaxPlayers
    /\ \E p \in Addresses :
          /\ p # last.caller
          /\ QueryResult("getPlayerEncryptedRole", last.caller, last.gameId, p).err = "none"
          /\ QueryResult("getPlayerStatus", last.caller, last.gameId, p) = View("none", FALSE)

MutatingOps == {"createGame", "joinGame", "startGame", "attack"}
EventKind(op) ==
    CASE op = "createGame" -> "GameCreated"
      [] op = "joinGame" -> "PlayerJoined"
      [] op = "startGame" -> "GameStarted"
      [] op = "attack" -> "PlayerAttacked"
DeadCount(g) == Cardinality({i \in Seats : ~games[g].alive[i]})

\* C28: every successful mutating call emits exactly one event, of its own
\* kind and for its own game, and a failing call none; GameCreated is emitted
\* by the step that brings the game into existence, PlayerJoined by a step that
\* seats its player in seat 1, 2 or 3 (the next free one) of a lobby,
\* GameStarted by the step that starts a lobby of four, PlayerAttacked by a
\* step that eliminates one more player of a started game (at most three); no
\* game changes without an event of that game.
C28_EventOrder ==
    [][ \A g \in GameIds :
            LET e == last'.event
            IN  /\ (last'.op \in MutatingOps /\ last'.gameId = g) =>
                      IF last'.err = "none"
                      THEN e # NoEvent /\ e[1] = EventKind(last'.op) /\ e[2] = g
                      ELSE e = NoEvent
                /\ (games'[g] # games[g] \/ playerIndex'[g] # playerIndex[g]) =>
                      (last'.gameId = g /\ e # NoEvent)
                /\ (last'.gameId = g /\ e # NoEvent) =>
                      CASE e[1] = "GameCreated" ->
                              /\ ~Exists(g)
                              /\ e = <<"GameCreated", g, games'[g].creator>>
                              /\ games'[g].playerCount = 1 /\ ~games'[g].started
                        [] e[1] = "PlayerJoined" ->
                              /\ Exists(g) /\ ~games[g].started /\ ~games'[g].started
                              /\ games[g].playerCount \in 1 .. (MaxPlayers - 1)
                              /\ games'[g].playerCount = games[g].playerCount + 1
                              /\ games'[g].players[games[g].playerCount] = e[3]
                              /\ e = <<"PlayerJoined", g, last'.caller>>
                        [] e[1] = "GameStarted" ->
                              /\ Exists(g) /\ ~games[g].started /\ games'[g].started
                              /\ games[g].playerCount = MaxPlayers
                              /\ e = <<"GameStarted", g>>
                        [] e[1] = "PlayerAttacked" ->
                              /\ games[g].started /\ games'[g].started
                              /\ DeadCount(g) < MaxPlayers - 1
                              /\ DeadCount(g)' = DeadCount(g) + 1
                              /\ e = <<"PlayerAttacked", g, last'.caller, e[4]>>
                        [] OTHER -> FALSE
      ]_vars

\* The third PlayerAttacked of a game has been emitted.
C28_Witness ==
    /\ last.event # NoEvent
    /\ last.event[1] = "PlayerAttacked"
    /\ DeadCount(last.gameId) = MaxPlayers - 1
    /\ games[last.gameId].playerCount = MaxPlayers

\* A call of the step sequence lies between two storage writes.
CallBetweenWrites(steps, k) ==
    /\ steps[k].kind = "call"
    /\ \E j \in 1 .. (k - 1) : steps[j].kind = "write"
    /\ \E j \in (k + 1) .. Len(steps) : steps[j].kind = "write"

\* C29: in a startGame that succeeds, every call to the confidential value
\* engine (encrypt, grant to the contract, grant to the player) comes before
\* the operation's first storage write or after its last one.
C29_NoEngineCallBetweenWrites ==
    Succeeded(last, "startGame") =>
        \A k \in 1 .. Len(startGameSteps) : ~CallBetweenWrites(startGameSteps, k)

\* C30: in every state of a started game the seat holding the Werewolf role is
\* alive, so getAlivePlayerCount of a started game is between 1 and 4.
C30_WerewolfSurvives ==
    \A g \in GameIds :
        games[g].started =>
            /\ \A i \in Seats : games[g].roles[i] = Werewolf => games[g].alive[i]
            /\ getAlivePlayerCount(g).err = "none"
            /\ getAlivePlayerCount(g).value \in 1 .. MaxPlayers

\* Only the Werewolf is left, and its attack on itself has been refused.
C30_Witness ==
    /\ last.op = "attack"
    /\ last.err = "CannotAttackSelf"
    /\ getAlivePlayerCount(last.gameId) = View("none", 1)
    /\ AliveAt(last.gameId, last.caller)

\* C31: the alive flag of an occupied seat never goes from false back to true
\* (a startGame runs only while every occupied seat is alive), a successful
\* attack finds fewer than three seats eliminated, and once three are
\* eliminated every attack on the game fails.
C31_NoRevival ==
    /\ [](\A g \in GameIds :
            /\ (Exists(g) /\ ~games[g].started) =>
                  \A i \in Seats : games[g].players[i] # ZeroAddress => games[g].alive[i]
            /\ (games[g].started /\ DeadCount(g) >= MaxPlayers - 1) =>
                  \A c \in Addresses, t \in AnyAddress : attackRevert(g, c, t) # "none")
    /\ [][ \A g \in GameIds :
            /\ \A i \in Seats :
                  (games[g].players[i] # ZeroAddress /\ ~games[g].alive[i]) =>
                      ~games'[g].alive[i]
            /\ (Succeeded(last', "attack") /\ last'.gameId = g /\ games'[g] # games[g]) =>
                  /\ DeadCount(g) < MaxPlayers - 1
                  /\ DeadCount(g)' = DeadCount(g) + 1
         ]_vars

\* Three players are eliminated and the Werewolf's next attack has failed.
C31_Witness ==
    /\ last.op = "attack"
    /\ last.err = "PlayerAlreadyDead"
    /\ games[last.gameId].started
    /\ DeadCount(last.gameId) = MaxPlayers - 1
    /\ RoleOf(last.gameId, last.caller) = Werewolf

\* C32: once a game is started no step changes its players, playerCount,
\* creator or player-index entries; the creator of an existing game never
\* changes and always equals players[0].
C32_SeatingFrozen ==
    /\ [](\A g \in GameIds : Exists(g) => games[g].creator = games[g].players[0])
    /\ [][ \A g \in GameIds :
            /\ Exists(g) => games'[g].creator = games[g].creator
            /\ games[g].started =>
                  /\ games'[g].players = games[g].players
                  /\ games'[g].playerCount = games[g].playerCount
                  /\ playerIndex'[g] = playerIndex[g]
         ]_vars

\* On a started game with an eliminated player, a join by an account that is
\* not seated was refused.
C32_Witness ==
    /\ last.op = "joinGame"
    /\ last.err = "GameAlreadyStarted"
    /\ ~Seated(last.gameId, last.caller)
    /\ DeadCount(last.gameId) > 0
    /\ games[last.gameId].players[0] = games[last.gameId].creator

\* The 12 arrangements of two Villagers, one Werewolf and one Seer.
Arrangements ==
    {r \in [Seats -> {Villager, Werewolf, Seer}] :
        /\ Cardinality({i \in Seats : r[i] = Villager}) = 2
        /\ Cardinality({i \in Seats : r[i] = Werewolf}) = 1
        /\ Cardinality({i \in Seats : r[i] = Seer}) = 1}

\* C34: when a full lobby is about to be started, swapIndex can take every
\* value of 0..i in iteration i = 3, 2, 1, every seat receives the Werewolf
\* for some seeds, and each of the 12 arrangements is the outcome of the
\* shuffle for some seeds.
C34_ShuffleNotDegenerate ==
    \A g \in GameIds :
        (Exists(g) /\ ~games[g].started /\ games[g].playerCount = MaxPlayers) =>
            /\ \A i \in 1 .. (MaxPlayers - 1) : \A k \in 0 .. i :
                  \E seed \in Seeds : swapIndexOf(seed, i) = k
            /\ \A s \in Seats : \E seedAt \in SeedRuns : shuffleRoles(seedAt)[s] = Werewolf
            /\ Cardinality(Arrangements) = 12
            /\ \A r \in Arrangements : \E seedAt \in SeedRuns : shuffleRoles(seedAt) = r

\* A started game whose roles are the initial arrangement reversed.
C34_Witness ==
    \E g \in GameIds :
        /\ Succeeded(last, "startGame")
        /\ last.gameId = g
        /\ games[g].roles = [i \in Seats |-> InitialRoles[MaxPlayers - 1 - i]]

\* C37: the player index is the exact inverse of the seat array: the index of
\* an address is i+1 exactly when the address sits in seat i < playerCount,
\* and 0 exactly when it sits in no seat; every index is within 0..4, so every
\* seat position index-1 that is used is within 0..3, and _addPlayer is never
\* entered with playerCount = 4.
C37_IndexInverse ==
    /\ last.err # "Panic"
    /\ \A g \in GameIds :
          /\ games[g].playerCount \in 0 .. MaxPlayers
          /\ \A a \in AnyAddress :
                /\ playerIndex[g][a] \in 0 .. MaxPlayers
                /\ \A i \in Seats :
                      playerIndex[g][a] = i + 1 <=>
                          (games[g].players[i] = a /\ i < games[g].playerCount)
                /\ playerIndex[g][a] = 0 <=>
                      ~(\E i \in Seats : (games[g].players[i] = a /\ i < games[g].playerCount))
          /\ \A c \in Addresses, t \in AnyAddress :
                attackRevert(g, c, t) = "none" =>
                    (SeatOf(g, c) \in Seats /\ SeatOf(g, t) \in Seats)

\* A fifth account was refused on a full lobby.
C37_Witness ==
    /\ last.op = "joinGame"
    /\ last.err = "GameFull"
    /\ ~Seated(last.gameId, last.caller)
    /\ \A i \in Seats : playerIndex[last.gameId][games[last.gameId].players[i]] = i + 1

\* Two attack submissions on game g executed one after the other from the
\* current state: the outcome of each and the games left behind.
RunBoth(g, c1, t1, c2, t2) ==
    LET one == attackIn(games, playerIndex, g, c1, t1)
        two == attackIn(one.games, playerIndex, g, c2, t2)
    IN  [first |-> one.err, second |-> two.err, games |-> two.games]

\* The storage of a started game is what a successful startGame or attack left.
StartedStorageOf(g) ==
    /\ games[g].started
    /\ last.gameId = g
    /\ Succeeded(last, "startGame") \/ Succeeded(last, "attack")

\* C33 as stated: any two attacks on a started game give the same final state
\* and the same outcome for each call in both orders.
C33_Original ==
    \A g \in GameIds :
        StartedStorageOf(g) =>
            \A c1, c2 \in Addresses, t1, t2 \in AnyAddress :
                LET ab == RunBoth(g, c1, t1, c2, t2)
                    ba == RunBoth(g, c2, t2, c1, t1)
                IN  /\ ab.games = ba.games
                    /\ ab.first = ba.second
                    /\ ab.second = ba.first

\* The first submission would succeed now, and the second is the same attack
\* again or is sent by the first one's target.
Disturbs(g, c1, t1, c2, t2) ==
    /\ attackRevert(g, c1, t1) = "none"
    /\ \/ c2 = t1
       \/ (c2 = c1 /\ t2 = t1)

\* C33: any two attacks on a started game give the same final state in both
\* orders; each call has the same outcome in both orders except when one of
\* them would succeed now and the other is the same attack again or is sent by
\* its target, and then some outcome depends on the order.
C33_AttacksCommuteOnState ==
    \A g \in GameIds :
        StartedStorageOf(g) =>
            \A c1, c2 \in Addresses, t1, t2 \in AnyAddress :
                LET ab == RunBoth(g, c1, t1, c2, t2)
                    ba == RunBoth(g, c2, t2, c1, t1)
                IN  /\ ab.first = attackRevert(g, c1, t1)
                    /\ ab.games = ba.games
                    /\ (ab.first = ba.second /\ ab.second = ba.first) <=>
                          ~(Disturbs(g, c1, t1, c2, t2) \/ Disturbs(g, c2, t2, c1, t1))

\* After one elimination, the Werewolf can still attack a player whose own
\* pending attack is refused for the role now and for being dead afterwards.
C33_Witness ==
    /\ Succeeded(last, "attack")
    /\ \E c2 \in Addresses, t2 \in AnyAddress :
          /\ AttackAllowed(last.gameId, last.caller, c2)
          /\ RunBoth(last.gameId, c2, t2, last.caller, c2).first = "NotWerewolf"
          /\ RunBoth(last.gameId, last.caller, c2, c2, t2).second = "PlayerAlreadyDead"

\* C35: the identifier handleCreateGame reports, getNextGameId() - 1 read after
\* the transaction is mined, is the identifier its createGame allocated.
C35_ReportedIdIsCreatedId ==
    ui.reportedId # NoId =>
        /\ ui.reportedId = ui.createdId
        /\ games[ui.reportedId].creator = UiUser

\* C36: whenever a row of the loaded game carries an Attack button, the role
\* was decrypted for the game whose details are displayed.
C36_ButtonsMatchLoadedGame ==
    attackButtons # {} => ui.roleGameId = ui.shownGameId
====
